---- MODULE Spec2Model ----
(***************************************************************************)
(* A model of the vinser/maze package: construction of the grid (New),     *)
(* corridor carving by randomized depth-first search (Generate, runDFS),   *)
(* the den door strategies (connectDen), endpoint selection                *)
(* (placeStartAndEnd, findFarthestPoint) and the breadth-first solver      *)
(* (Solve).  Random draws of the seeded generator are inputs of the        *)
(* actions that consume them.                                              *)
(***************************************************************************)
EXTENDS Integers, Sequences, FiniteSets, TLC

VARIABLES pc, m, call, ret, stack, generationStart, rng, tape, first

vars == <<pc, m, call, ret, stack, generationStart, rng, tape, first>>

\* the variables of the seeded runs (SpecTwin); the other specifications
\* leave the draws free and do not use them
seeded == <<rng, tape, first>>

(***************************************************************************)
(* Bounds of the model.                                                    *)
(***************************************************************************)
\* largest width and height requested from New
MaxWidth == 9
MaxHeight == 7
\* largest den width / height requested from New
MaxDen == 3
\* Generate is explored on mazes with at most this many corridor positions
\* (pairs of passage cells outside the den that are two grid steps apart)
MaxCorridors == 10
\* largest dimension requested from New when New alone is explored
MaxNewDim == 10
\* seeded runs: number of seeds; largest width / height and den size
\* requested, and largest width and height requested without a den; most
\* corridor positions of a maze generated with two different seeds; most
\* draws after which the seed-cell loop may still go round again
NumSeeds == 2
MaxTwinDim == 5
MaxTwinDen == 1
MaxTwinWidth == 7
MaxTwinHeight == 5
MaxTwinCorridors == 4
MaxRetryDraws == 2
\* hand-built grids given to Solve: largest side and largest number of cells
MaxHand == 3
MaxHandCells == 9
\* the mazes of the specification with fairness
MaxFairWidth == 7
MaxFairHeight == 5
MaxFairDen == 3
\* re-generation: largest width / height and den size requested
MaxRegenDim == 5
MaxRegenDen == 1

(***************************************************************************)
(* Cells and points (maze.go: Cell, Point).                                *)
(***************************************************************************)
Wall == "Wall"
Path == "Path"
Start == "Start"
End == "End"

\* a cell on the solved path (written by presentation code only)
SolutionPath == "SolutionPath"

Cells == {Wall, Path, Start, End, SolutionPath}

Point(x, y) == [X |-> x, Y |-> y]

\* Go's integer division truncates toward zero.
GoDiv(a, b) == IF a >= 0 THEN a \div b ELSE -((-a) \div b)

\* the direction list {0,-1},{0,1},{-1,0},{1,0} used by every search
directions == <<Point(0, -1), Point(0, 1), Point(-1, 0), Point(1, 0)>>

\* the direction list of findValidNeighbors with steps of one cell
directions2Unit == <<Point(0, -1), Point(0, 1), Point(-1, 0), Point(1, 0)>>

\* the direction list of findValidNeighbors (two grid steps)
directions2 == <<Point(0, -2), Point(0, 2), Point(-2, 0), Point(2, 0)>>

(***************************************************************************)
(* Construction.                                                           *)
(***************************************************************************)
adjustToOdd(dim) == IF dim > 0 /\ dim % 2 = 0 THEN dim + 1 ELSE dim

ErrSize == "width and height must be positive"
ErrDenNeg == "den dimensions must be non-negative"
ErrDenWidth == "den width is too large for the maze width"
ErrDenHeight == "den height is too large for the maze height"

NoDims(e) == [width |-> 0, height |-> 0, denWidth |-> 0, denHeight |-> 0, err |-> e]

\* validateAndAdjustDimensions with the den-fit tests written > instead of >=
validateAndAdjustDimensionsLoose(width, height, denWidth, denHeight) ==
    IF width <= 0 \/ height <= 0 THEN NoDims(ErrSize)
    ELSE IF denWidth < 0 \/ denHeight < 0 THEN NoDims(ErrDenNeg)
    ELSE IF adjustToOdd(denWidth) > 0 /\ adjustToOdd(denWidth) > adjustToOdd(width) - 2
        THEN NoDims(ErrDenWidth)
    ELSE IF adjustToOdd(denHeight) > 0 /\ adjustToOdd(denHeight) > adjustToOdd(height) - 2
        THEN NoDims(ErrDenHeight)
    ELSE [width |-> adjustToOdd(width), height |-> adjustToOdd(height),
          denWidth |-> adjustToOdd(denWidth), denHeight |-> adjustToOdd(denHeight),
          err |-> ""]

validateAndAdjustDimensions(width, height, denWidth, denHeight) ==
    IF width <= 0 \/ height <= 0 THEN NoDims(ErrSize)
    ELSE IF denWidth < 0 \/ denHeight < 0 THEN NoDims(ErrDenNeg)
    ELSE LET adjWidth == adjustToOdd(width)
             adjHeight == adjustToOdd(height)
             adjDenWidth == adjustToOdd(denWidth)
             adjDenHeight == adjustToOdd(denHeight)
         IN  IF adjDenWidth > 0 /\ adjDenWidth >= adjWidth - 2
                 THEN NoDims(ErrDenWidth)
             ELSE IF adjDenHeight > 0 /\ adjDenHeight >= adjHeight - 2
                 THEN NoDims(ErrDenHeight)
             ELSE [width |-> adjWidth, height |-> adjHeight,
                   denWidth |-> adjDenWidth, denHeight |-> adjDenHeight,
                   err |-> ""]

\* calculateDenPosition without the adjustment to odd coordinates
calculateDenPositionCentered(width, denWidth, height, denHeight) ==
    Point(GoDiv(width - denWidth, 2), GoDiv(height - denHeight, 2))

calculateDenPosition(width, denWidth, height, denHeight) ==
    LET x0 == GoDiv(width - denWidth, 2)
        y0 == GoDiv(height - denHeight, 2)
    IN  Point(IF x0 > 0 /\ x0 % 2 = 0 THEN x0 - 1 ELSE x0,
              IF y0 > 0 /\ y0 % 2 = 0 THEN y0 - 1 ELSE y0)

IsInsideDen(mz, p) ==
    IF mz.denWidth <= 0 \/ mz.denHeight <= 0 THEN FALSE
    ELSE /\ p.X >= mz.denStartX
         /\ p.X < mz.denStartX + mz.denWidth
         /\ p.Y >= mz.denStartY
         /\ p.Y < mz.denStartY + mz.denHeight

IsAdjacentToDen(mz, p) ==
    IF mz.denWidth <= 0 \/ mz.denHeight <= 0 THEN FALSE
    ELSE IF IsInsideDen(mz, p) THEN FALSE
    ELSE \E i \in 1..4 :
            IsInsideDen(mz, Point(p.X + directions[i].X, p.Y + directions[i].Y))

initializeGrid(mz) ==
    [mz EXCEPT !.grid =
        [i \in 0..(mz.height - 1) |->
            [j \in 0..(mz.width - 1) |->
                IF IsInsideDen(mz, Point(j, i)) THEN Path ELSE Wall]]]

\* the Maze value before any maze exists
NoMaze ==
    [width |-> 0, height |-> 0, grid |-> [i \in {} |-> <<>>],
     start |-> Point(0, 0), end |-> Point(0, 0), door |-> Point(0, 0),
     denWidth |-> 0, denHeight |-> 0, denStartX |-> 0, denStartY |-> 0]

\* New: the maze it returns (NoMaze with an error when validation fails)
New(width, height, denWidth, denHeight) ==
    LET d == validateAndAdjustDimensions(width, height, denWidth, denHeight)
    IN  IF d.err # "" THEN [maze |-> NoMaze, err |-> d.err]
        ELSE LET m0 == [NoMaze EXCEPT !.width = d.width, !.height = d.height,
                                      !.denWidth = d.denWidth,
                                      !.denHeight = d.denHeight]
                 den == calculateDenPosition(m0.width, m0.denWidth,
                                             m0.height, m0.denHeight)
                 m1 == IF m0.denWidth > 0 /\ m0.denHeight > 0
                       THEN [m0 EXCEPT !.denStartX = den.X, !.denStartY = den.Y]
                       ELSE m0
             IN  [maze |-> initializeGrid(m1), err |-> ""]

(***************************************************************************)
(* Grid access.                                                            *)
(***************************************************************************)
\* m.grid[p.Y][p.X], the indexing the package uses on its own grid
CellAt(mz, p) == mz.grid[p.Y][p.X]

\* the zero value of Cell
ZeroCell == "zero"

\* the accessor Maze.Cell: the cell and true inside the grid, the zero value
\* and false outside it
Cell(mz, x, y) ==
    IF x < 0 \/ x >= mz.width \/ y < 0 \/ y >= mz.height
    THEN [cell |-> ZeroCell, ok |-> FALSE]
    ELSE [cell |-> mz.grid[y][x], ok |-> TRUE]

SetCell(mz, p, c) == [mz EXCEPT !.grid[p.Y][p.X] = c]

\* strictly inside the outer border
Interior(mz, p) ==
    p.X > 0 /\ p.X < mz.width - 1 /\ p.Y > 0 /\ p.Y < mz.height - 1

\* parent[p] of a Go map: the zero Point when p has no entry
Lookup(parent, p) == IF p \in DOMAIN parent THEN parent[p] ELSE Point(0, 0)

(***************************************************************************)
(* Corridor carving (generate.go: runDFS and its helpers).                 *)
(***************************************************************************)
\* findValidNeighbors with the right-hand bound off by one (width-2 for width-1)
findValidNeighborsShort(mz, p) ==
    LET valid(dir) ==
            LET next == Point(p.X + dir.X, p.Y + dir.Y)
                wallBetween == Point(p.X + GoDiv(dir.X, 2), p.Y + GoDiv(dir.Y, 2))
            IN  /\ next.X > 0 /\ next.X < mz.width - 2
                /\ next.Y > 0 /\ next.Y < mz.height - 1
                /\ CellAt(mz, next) = Wall
                /\ ~(IsInsideDen(mz, wallBetween) \/ IsAdjacentToDen(mz, next))
        dirs == SelectSeq(directions2, valid)
    IN  [k \in 1..Len(dirs) |-> Point(p.X + dirs[k].X, p.Y + dirs[k].Y)]

findValidNeighbors(mz, p) ==
    LET valid(dir) ==
            LET next == Point(p.X + dir.X, p.Y + dir.Y)
                wallBetween == Point(p.X + GoDiv(dir.X, 2), p.Y + GoDiv(dir.Y, 2))
            IN  /\ next.X > 0 /\ next.X < mz.width - 1
                /\ next.Y > 0 /\ next.Y < mz.height - 1
                /\ CellAt(mz, next) = Wall
                /\ ~(IsInsideDen(mz, wallBetween) \/ IsAdjacentToDen(mz, next))
        dirs == SelectSeq(directions2, valid)
    IN  [k \in 1..Len(dirs) |-> Point(p.X + dirs[k].X, p.Y + dirs[k].Y)]

\* the index in neighbors of the straight-continuation option, 0 when none
straightOption(neighbors, stk) ==
    LET current == stk[Len(stk)]
        lastDirection ==
            IF Len(stk) > 1
            THEN Point(current.X - stk[Len(stk) - 1].X, current.Y - stk[Len(stk) - 1].Y)
            ELSE Point(0, 0)
        hits == {k \in 1..Len(neighbors) :
                    /\ neighbors[k].X - current.X = lastDirection.X
                    /\ neighbors[k].Y - current.Y = lastDirection.Y}
    IN  IF hits = {} THEN 0 ELSE CHOOSE k \in hits : \A j \in hits : k <= j

\* chooseBiasedNeighbor with the test of the draw against the bias inverted
chooseBiasedNeighborInverted(neighbors, stk, bias, f, i) ==
    LET s == straightOption(neighbors, stk)
    IN  IF s # 0 /\ f >= bias THEN neighbors[s] ELSE neighbors[i + 1]

\* bias and the Float64 draw f are in units of 1/BiasUnit; i is the Intn draw
chooseBiasedNeighbor(neighbors, stk, bias, f, i) ==
    LET s == straightOption(neighbors, stk)
    IN  IF s # 0 /\ f < bias THEN neighbors[s] ELSE neighbors[i + 1]

\* one iteration of the loop of runDFS on the pair (maze, stack)
runDFSIteration(mz, stk, bias, f, i) ==
    LET current == stk[Len(stk)]
        neighbors == findValidNeighbors(mz, current)
    IN  IF Len(neighbors) > 0
        THEN LET next == chooseBiasedNeighbor(neighbors, stk, bias, f, i)
                 wallToRemove ==
                     Point(current.X + GoDiv(next.X - current.X, 2),
                           current.Y + GoDiv(next.Y - current.Y, 2))
             IN  [maze |-> SetCell(SetCell(mz, wallToRemove, Path), next, Path),
                  stack |-> Append(stk, next)]
        ELSE [maze |-> mz, stack |-> SubSeq(stk, 1, Len(stk) - 1)]

(***************************************************************************)
(* Corridor-to-nearest-path search (generate.go: carvePathToNearest).      *)
(***************************************************************************)
ErrNoPath == "no path found to connect the door to the maze"

RECURSIVE carveScan(_, _, _, _, _, _)
\* the loop over the four directions for one dequeued cell
carveScan(mz, current, d, queue, visited, parent) ==
    IF d > 4
    THEN [found |-> FALSE, target |-> current, queue |-> queue,
          visited |-> visited, parent |-> parent]
    ELSE LET next == Point(current.X + directions[d].X, current.Y + directions[d].Y)
         IN  IF next.X <= 0 \/ next.X >= mz.width - 1
                \/ next.Y <= 0 \/ next.Y >= mz.height - 1
             THEN carveScan(mz, current, d + 1, queue, visited, parent)
             ELSE IF CellAt(mz, next) = Path
             THEN [found |-> TRUE, target |-> next, queue |-> queue,
                   visited |-> visited, parent |-> (next :> current) @@ parent]
             ELSE IF CellAt(mz, next) = Wall /\ next \notin visited
             THEN carveScan(mz, current, d + 1, Append(queue, next),
                            visited \cup {next}, (next :> current) @@ parent)
             ELSE carveScan(mz, current, d + 1, queue, visited, parent)

RECURSIVE carveSearch(_, _, _, _, _)
\* the loop `for head < len(queue)`
carveSearch(mz, queue, head, visited, parent) ==
    IF head > Len(queue)
    THEN [found |-> FALSE, target |-> Point(0, 0), parent |-> parent]
    ELSE LET r == carveScan(mz, queue[head], 1, queue, visited, parent)
         IN  IF r.found
             THEN [found |-> TRUE, target |-> r.target, parent |-> r.parent]
             ELSE carveSearch(mz, r.queue, head + 1, r.visited, r.parent)

RECURSIVE carveBack(_, _, _, _)
\* the loop `for p != start { p = parent[p]; grid[p] = Path }`
carveBack(mz, p, start, parent) ==
    IF p = start THEN mz
    ELSE LET q == Lookup(parent, p)
         IN  carveBack(SetCell(mz, q, Path), q, start, parent)

carvePathToNearest(mz, start) ==
    LET r == carveSearch(mz, <<start>>, 1, {start}, <<>>)
    IN  IF ~r.found THEN [maze |-> mz, err |-> ErrNoPath]
        ELSE [maze |-> carveBack(mz, r.target, start, r.parent), err |-> ""]

(***************************************************************************)
(* Den door (generate.go: connectDen and its three strategies).            *)
(***************************************************************************)
ErrSide == "invalid door side"
ErrEdge == "cannot place door: too close to maze edge"
ErrDoorWall == "invalid door location: not a valid wall position"
ErrDoorSeam == "invalid door location: does not connect the den to a maze path"

Sides == {"top", "bottom", "left", "right"}

\* sideDoor taking the first cell of the den edge instead of its midpoint
sideDoorCorner(mz, doorSide) ==
    CASE doorSide = "top" ->
            [door |-> Point(mz.denStartX, mz.denStartY - 1),
             neighbor |-> Point(mz.denStartX, mz.denStartY - 2)]
      [] doorSide = "bottom" ->
            [door |-> Point(mz.denStartX, mz.denStartY + mz.denHeight),
             neighbor |-> Point(mz.denStartX, mz.denStartY + mz.denHeight + 1)]
      [] doorSide = "left" ->
            [door |-> Point(mz.denStartX - 1, mz.denStartY),
             neighbor |-> Point(mz.denStartX - 2, mz.denStartY)]
      [] doorSide = "right" ->
            [door |-> Point(mz.denStartX + mz.denWidth, mz.denStartY),
             neighbor |-> Point(mz.denStartX + mz.denWidth + 1, mz.denStartY)]

\* the door cell and its outward neighbour for a side name
sideDoor(mz, doorSide) ==
    CASE doorSide = "top" ->
            [door |-> Point(mz.denStartX + GoDiv(mz.denWidth, 2), mz.denStartY - 1),
             neighbor |-> Point(mz.denStartX + GoDiv(mz.denWidth, 2), mz.denStartY - 2)]
      [] doorSide = "bottom" ->
            [door |-> Point(mz.denStartX + GoDiv(mz.denWidth, 2),
                            mz.denStartY + mz.denHeight),
             neighbor |-> Point(mz.denStartX + GoDiv(mz.denWidth, 2),
                                mz.denStartY + mz.denHeight + 1)]
      [] doorSide = "left" ->
            [door |-> Point(mz.denStartX - 1, mz.denStartY + GoDiv(mz.denHeight, 2)),
             neighbor |-> Point(mz.denStartX - 2, mz.denStartY + GoDiv(mz.denHeight, 2))]
      [] doorSide = "right" ->
            [door |-> Point(mz.denStartX + mz.denWidth,
                            mz.denStartY + GoDiv(mz.denHeight, 2)),
             neighbor |-> Point(mz.denStartX + mz.denWidth + 1,
                                mz.denStartY + GoDiv(mz.denHeight, 2))]

OpenDoor(mz, door) == [SetCell(mz, door, Path) EXCEPT !.door = door]

\* connectDenAtSide testing the vertical position against the width
connectDenAtSideSquare(mz, doorSide) ==
    IF doorSide \notin Sides THEN [maze |-> mz, err |-> ErrSide]
    ELSE LET sd == sideDoor(mz, doorSide)
             door == sd.door
             neighbor == sd.neighbor
         IN  IF \/ door.X <= 0 \/ door.X >= mz.width - 1
                \/ door.Y <= 0 \/ door.Y >= mz.width - 1
                \/ neighbor.X <= 0 \/ neighbor.X >= mz.width - 1
                \/ neighbor.Y <= 0 \/ neighbor.Y >= mz.width - 1
             THEN [maze |-> mz, err |-> ErrEdge]
             ELSE IF CellAt(mz, neighbor) = Path
             THEN [maze |-> OpenDoor(mz, door), err |-> ""]
             ELSE LET c == carvePathToNearest(mz, neighbor)
                  IN  IF c.err # "" THEN [maze |-> c.maze, err |-> c.err]
                      ELSE [maze |-> OpenDoor(c.maze, door), err |-> ""]

connectDenAtSide(mz, doorSide) ==
    IF doorSide \notin Sides THEN [maze |-> mz, err |-> ErrSide]
    ELSE LET sd == sideDoor(mz, doorSide)
             door == sd.door
             neighbor == sd.neighbor
         IN  IF \/ door.X <= 0 \/ door.X >= mz.width - 1
                \/ door.Y <= 0 \/ door.Y >= mz.height - 1
                \/ neighbor.X <= 0 \/ neighbor.X >= mz.width - 1
                \/ neighbor.Y <= 0 \/ neighbor.Y >= mz.height - 1
             THEN [maze |-> mz, err |-> ErrEdge]
             ELSE IF CellAt(mz, neighbor) = Path
             THEN [maze |-> OpenDoor(mz, door), err |-> ""]
             ELSE LET c == carvePathToNearest(mz, neighbor)
                  IN  IF c.err # "" THEN [maze |-> c.maze, err |-> c.err]
                      ELSE [maze |-> OpenDoor(c.maze, door), err |-> ""]

\* Seam without the test that exactly one side is in the den
SeamAnywhere(mz, p, dx, dy) ==
    LET p1 == Point(p.X - dx, p.Y - dy)
        p2 == Point(p.X + dx, p.Y + dy)
    IN  /\ CellAt(mz, p1) = Path
        /\ CellAt(mz, p2) = Path

\* Path-Wall-Path across the cell p along direction (dx, dy), one side in the den
Seam(mz, p, dx, dy) ==
    LET p1 == Point(p.X - dx, p.Y - dy)
        p2 == Point(p.X + dx, p.Y + dy)
    IN  /\ CellAt(mz, p1) = Path
        /\ CellAt(mz, p2) = Path
        /\ IsInsideDen(mz, p1) # IsInsideDen(mz, p2)

connectDenAtPoint(mz, userDoor) ==
    IF \/ userDoor.X <= 0 \/ userDoor.X >= mz.width - 1
       \/ userDoor.Y <= 0 \/ userDoor.Y >= mz.height - 1
       \/ CellAt(mz, userDoor) # Wall
    THEN [maze |-> mz, err |-> ErrDoorWall]
    ELSE IF Seam(mz, userDoor, 1, 0) THEN [maze |-> OpenDoor(mz, userDoor), err |-> ""]
    ELSE IF Seam(mz, userDoor, 0, 1) THEN [maze |-> OpenDoor(mz, userDoor), err |-> ""]
    ELSE [maze |-> mz, err |-> ErrDoorSeam]

\* the candidates of connectRandomDenDoor in scan order (rows, then columns)
potentialDoors(mz) ==
    LET n == (mz.height - 2) * (mz.width - 2)
        at(k) == Point(1 + ((k - 1) % (mz.width - 2)), 1 + ((k - 1) \div (mz.width - 2)))
        all == [k \in 1..n |-> at(k)]
        ok(p) == /\ CellAt(mz, p) = Wall
                 /\ (Seam(mz, p, 1, 0) \/ Seam(mz, p, 0, 1))
    IN  IF mz.height <= 2 \/ mz.width <= 2 THEN <<>> ELSE SelectSeq(all, ok)

RECURSIVE OpenAll(_, _, _)
OpenAll(mz, pd, k) == IF k > Len(pd) THEN mz ELSE OpenAll(OpenDoor(mz, pd[k]), pd, k + 1)

\* connectRandomDenDoor opening every candidate instead of the one drawn
connectRandomDenDoorAll(mz, i) ==
    [maze |-> OpenAll(mz, potentialDoors(mz), 1), err |-> ""]

\* i is the draw r.Intn(len(potentialDoors))
connectRandomDenDoor(mz, i) ==
    LET pd == potentialDoors(mz)
    IN  IF Len(pd) > 0 THEN [maze |-> OpenDoor(mz, pd[i + 1]), err |-> ""]
        ELSE [maze |-> mz, err |-> ""]

\* userDoor is <<>> for nil, <<p>> for a pointer to p
connectDen(mz, i, userDoor, doorSide) ==
    IF mz.denWidth <= 0 \/ mz.denHeight <= 0 THEN [maze |-> mz, err |-> ""]
    ELSE IF doorSide # "" THEN connectDenAtSide(mz, doorSide)
    ELSE IF userDoor # <<>> THEN connectDenAtPoint(mz, userDoor[1])
    ELSE connectRandomDenDoor(mz, i)

(***************************************************************************)
(* Endpoints (generate.go: findFarthestPoint, placeStartAndEnd).           *)
(***************************************************************************)
RECURSIVE farScan(_, _, _, _, _, _)
RECURSIVE farScanAnywhere(_, _, _, _, _, _)
\* farScan without the test that keeps the farthest point out of the den and
\* off the cells beside it
farScanAnywhere(mz, current, d, queue, distances, far) ==
    IF d > 4 THEN [queue |-> queue, distances |-> distances, far |-> far]
    ELSE LET next == Point(current.X + directions[d].X, current.Y + directions[d].Y)
         IN  IF /\ next.X > 0 /\ next.X < mz.width - 1
                /\ next.Y > 0 /\ next.Y < mz.height - 1
                /\ CellAt(mz, next) # Wall
                /\ next \notin DOMAIN distances
             THEN LET dist == distances[current] + 1
                      far2 == IF dist > far.maxDistance
                              THEN [farthestPoint |-> next, maxDistance |-> dist]
                              ELSE far
                  IN  farScanAnywhere(mz, current, d + 1, Append(queue, next),
                                      (next :> dist) @@ distances, far2)
             ELSE farScanAnywhere(mz, current, d + 1, queue, distances, far)

\* the loop over the four directions for one dequeued cell
farScan(mz, current, d, queue, distances, far) ==
    IF d > 4 THEN [queue |-> queue, distances |-> distances, far |-> far]
    ELSE LET next == Point(current.X + directions[d].X, current.Y + directions[d].Y)
         IN  IF /\ next.X > 0 /\ next.X < mz.width - 1
                /\ next.Y > 0 /\ next.Y < mz.height - 1
                /\ CellAt(mz, next) # Wall
                /\ next \notin DOMAIN distances
             THEN LET dist == distances[current] + 1
                      far2 == IF /\ dist > far.maxDistance
                                 /\ ~IsInsideDen(mz, next)
                                 /\ ~IsAdjacentToDen(mz, next)
                              THEN [farthestPoint |-> next, maxDistance |-> dist]
                              ELSE far
                  IN  farScan(mz, current, d + 1, Append(queue, next),
                              (next :> dist) @@ distances, far2)
             ELSE farScan(mz, current, d + 1, queue, distances, far)

RECURSIVE farSearch(_, _, _, _, _)
farSearch(mz, queue, head, distances, far) ==
    IF head > Len(queue) THEN far
    ELSE LET r == farScan(mz, queue[head], 1, queue, distances, far)
         IN  farSearch(mz, r.queue, head + 1, r.distances, r.far)

findFarthestPoint(mz, start) ==
    farSearch(mz, <<start>>, 1, (start :> 0),
              [farthestPoint |-> start, maxDistance |-> 0])

\* placeStartAndEnd measuring the end point from the seed cell of the carving
\* instead of from the start point
placeStartAndEndFromSeed(mz, genStart, useProvidedStart) ==
    LET s == IF useProvidedStart THEN genStart
             ELSE findFarthestPoint(mz, genStart).farthestPoint
        e == findFarthestPoint(mz, genStart).farthestPoint
        m1 == [mz EXCEPT !.start = s, !.end = e]
    IN  SetCell(SetCell(m1, s, Start), e, End)

placeStartAndEnd(mz, genStart, useProvidedStart) ==
    LET s == IF useProvidedStart THEN genStart
             ELSE findFarthestPoint(mz, genStart).farthestPoint
        e == findFarthestPoint(mz, s).farthestPoint
        m1 == [mz EXCEPT !.start = s, !.end = e]
    IN  SetCell(SetCell(m1, s, Start), e, End)

(***************************************************************************)
(* Solver (solve.go: Solve).                                               *)
(***************************************************************************)
RECURSIVE solveScan(_, _, _, _, _, _)
RECURSIVE solveScanPathOnly(_, _, _, _, _, _)
RECURSIVE solveScanInterior(_, _, _, _, _, _)
\* solveScan with the bounds test of the other searches (border cells excluded)
solveScanInterior(mz, current, d, queue, visited, parent) ==
    IF d > 4 THEN [queue |-> queue, visited |-> visited, parent |-> parent]
    ELSE LET next == Point(current.X + directions[d].X, current.Y + directions[d].Y)
         IN  IF next.X <= 0 \/ next.X >= mz.width - 1
                \/ next.Y <= 0 \/ next.Y >= mz.height - 1
             THEN solveScanInterior(mz, current, d + 1, queue, visited, parent)
             ELSE IF CellAt(mz, next) # Wall /\ next \notin visited
             THEN solveScanInterior(mz, current, d + 1, Append(queue, next),
                                    visited \cup {next}, (next :> current) @@ parent)
             ELSE solveScanInterior(mz, current, d + 1, queue, visited, parent)

\* solveScan walking Path cells only (cell == Path for cell != Wall)
solveScanPathOnly(mz, current, d, queue, visited, parent) ==
    IF d > 4 THEN [queue |-> queue, visited |-> visited, parent |-> parent]
    ELSE LET next == Point(current.X + directions[d].X, current.Y + directions[d].Y)
         IN  IF next.X < 0 \/ next.X >= mz.width \/ next.Y < 0 \/ next.Y >= mz.height
             THEN solveScanPathOnly(mz, current, d + 1, queue, visited, parent)
             ELSE IF CellAt(mz, next) = Path /\ next \notin visited
             THEN solveScanPathOnly(mz, current, d + 1, Append(queue, next),
                                    visited \cup {next}, (next :> current) @@ parent)
             ELSE solveScanPathOnly(mz, current, d + 1, queue, visited, parent)

\* the loop over the four directions for one dequeued cell
solveScan(mz, current, d, queue, visited, parent) ==
    IF d > 4 THEN [queue |-> queue, visited |-> visited, parent |-> parent]
    ELSE LET next == Point(current.X + directions[d].X, current.Y + directions[d].Y)
         IN  IF next.X < 0 \/ next.X >= mz.width \/ next.Y < 0 \/ next.Y >= mz.height
             THEN solveScan(mz, current, d + 1, queue, visited, parent)
             ELSE IF CellAt(mz, next) # Wall /\ next \notin visited
             THEN solveScan(mz, current, d + 1, Append(queue, next),
                            visited \cup {next}, (next :> current) @@ parent)
             ELSE solveScan(mz, current, d + 1, queue, visited, parent)

RECURSIVE solveSearch(_, _, _, _, _)
\* the loop `for head < len(queue)`: pathFound and the parent map
solveSearch(mz, queue, head, visited, parent) ==
    IF head > Len(queue) THEN [pathFound |-> FALSE, parent |-> parent]
    ELSE IF queue[head] = mz.end THEN [pathFound |-> TRUE, parent |-> parent]
    ELSE LET r == solveScan(mz, queue[head], 1, queue, visited, parent)
         IN  solveSearch(mz, r.queue, head + 1, r.visited, r.parent)

RECURSIVE solveBack(_, _, _, _)
RECURSIVE solveBackNoReverse(_, _, _, _)
\* solveBack without the final reversal: the walk is returned end first
solveBackNoReverse(mz, p, parent, fullPath) ==
    IF p = mz.start THEN Append(fullPath, p)
    ELSE solveBackNoReverse(mz, Lookup(parent, p), parent, Append(fullPath, p))

\* the backward walk from end to start, returned already reversed
solveBack(mz, p, parent, fullPath) ==
    IF p = mz.start THEN <<p>> \o fullPath
    ELSE solveBack(mz, Lookup(parent, p), parent, <<p>> \o fullPath)

\* path is <<>> for nil
Solve(mz) ==
    LET r == solveSearch(mz, <<mz.start>>, 1, {mz.start}, <<>>)
    IN  IF r.pathFound
        THEN [path |-> solveBack(mz, mz.end, r.parent, <<>>), found |-> TRUE]
        ELSE [path |-> <<>>, found |-> FALSE]

(***************************************************************************)
(* Generate: argument validation (generate.go: Generate, step 1).          *)
(***************************************************************************)
ErrStart == "invalid start point: must be within maze bounds and have odd coordinates"
ErrStartDen == "invalid start point: cannot start generation inside the den"

\* validateStart without the test for the den
validateStartNoDen(mz, start) ==
    LET s == start[1]
    IN  IF \/ s.X <= 0 \/ s.X >= mz.width - 1
           \/ s.Y <= 0 \/ s.Y >= mz.height - 1
           \/ s.X % 2 = 0 \/ s.Y % 2 = 0
        THEN ErrStart
        ELSE ""

\* start is <<>> for nil, <<p>> for a pointer to p; "" when the point is accepted
validateStart(mz, start) ==
    LET s == start[1]
    IN  IF \/ s.X <= 0 \/ s.X >= mz.width - 1
           \/ s.Y <= 0 \/ s.Y >= mz.height - 1
           \/ s.X % 2 = 0 \/ s.Y % 2 = 0
        THEN ErrStart
        ELSE IF IsInsideDen(mz, s) THEN ErrStartDen
        ELSE ""

\* the first lines of runDFS: mark the seed cell and push it
runDFSBegin(mz, start) == [maze |-> SetCell(mz, start, Path), stack |-> <<start>>]

(***************************************************************************)
(* State machine.                                                          *)
(*   pc = "start"      no maze yet                                         *)
(*        "ready"      New returned a maze                                 *)
(*        "pickStart"  Generate is in its random seed-cell loop            *)
(*        "dfs"        Generate is in the loop of runDFS                   *)
(*        "generated"  Generate returned nil                               *)
(*        "hand"       the maze was built by hand, as the tests of Solve do *)
(*        "solved"     Solve returned                                      *)
(*        "failed"     the last call returned an error                     *)
(*        "panic"      the last call panicked                              *)
(***************************************************************************)
\* bias and Float64 draws are counted in units of 1/BiasUnit
BiasUnit == 2

NoCall ==
    [op |-> "none", width |-> 0, height |-> 0, denWidth |-> 0, denHeight |-> 0,
     start |-> <<>>, bias |-> 0, door |-> <<>>, doorSide |-> ""]

NoRet == [err |-> "", path |-> <<>>, found |-> FALSE]

Seeds == 1..NumSeeds

\* r := rand.New(rand.NewSource(seed)): a generator at the beginning of the
\* stream that the seed determines.  pos counts the calls it has made; same
\* holds as long as they are the calls recorded for the seed
NewSource(seed) == [seed |-> seed, pos |-> 0, same |-> TRUE]

NoRng == [seed |-> 0, pos |-> 0, same |-> TRUE]

\* tape[seed] holds the calls made so far by a generator of the seed, from
\* its first call on, each with the value it returned
NoTape == [s \in Seeds |-> <<>>]

SeededInit == rng = NoRng /\ tape = NoTape /\ first = <<>>

Init ==
    /\ pc = "start"
    /\ m = NoMaze
    /\ call = NoCall
    /\ ret = NoRet
    /\ stack = <<>>
    /\ generationStart = Point(0, 0)
    /\ SeededInit

\* passage cells (odd, odd, inside the border) outside the den
FreeCells(mz) ==
    {p \in {Point(x, y) : x \in 1..(mz.width - 2), y \in 1..(mz.height - 2)} :
        p.X % 2 = 1 /\ p.Y % 2 = 1 /\ ~IsInsideDen(mz, p)}

\* the pairs of passage cells the carving loop can join
Corridors(mz) ==
    {c \in FreeCells(mz) \X FreeCells(mz) :
        \/ c[2].X = c[1].X + 2 /\ c[2].Y = c[1].Y
        \/ c[2].X = c[1].X /\ c[2].Y = c[1].Y + 2}

NewCall(width, height, denWidth, denHeight) ==
    /\ pc = "start"
    /\ LET r == New(width, height, denWidth, denHeight)
       IN  /\ m' = r.maze
           /\ ret' = [NoRet EXCEPT !.err = r.err]
           /\ pc' = IF r.err = "" THEN "ready" ELSE "failed"
    /\ call' = [NoCall EXCEPT !.op = "New", !.width = width, !.height = height,
                              !.denWidth = denWidth, !.denHeight = denHeight]
    /\ UNCHANGED <<stack, generationStart>>

\* the door points the model draws: the den, the ring of cells around it,
\* and two cells away from it
DoorPoints(mz) ==
    {Point(x, y) : x \in (mz.denStartX - 1)..(mz.denStartX + mz.denWidth),
                   y \in (mz.denStartY - 1)..(mz.denStartY + mz.denHeight)}
    \cup {Point(0, 0), Point(mz.width - 2, mz.height - 2)}

\* the door arguments the model draws for a maze
DoorInputs(mz) ==
    IF mz.denWidth <= 0 \/ mz.denHeight <= 0
    THEN {[door |-> <<>>, doorSide |-> ""], [door |-> <<>>, doorSide |-> "top"],
          [door |-> <<Point(1, 1)>>, doorSide |-> ""]}
    ELSE {[door |-> <<>>, doorSide |-> s] : s \in Sides \cup {"", "middle"}}
         \cup {[door |-> <<p>>, doorSide |-> ""] : p \in DoorPoints(mz)}
         \cup {[door |-> <<Point(mz.denStartX + mz.denWidth, mz.denStartY)>>,
                doorSide |-> s] : s \in {"bottom", "middle"}}

\* the record of a Generate call whose door and doorSide are not drawn yet
GenerateArgs(start, bias) ==
    [NoCall EXCEPT !.op = "Generate", !.start = start, !.bias = bias]

\* Generate up to the choice of the seed cell.  door and doorSide are first
\* read by connectDen, after the carving loop, and are drawn there; a call
\* that returns on its start point never reads them, and they are drawn as it
\* returns.  generationStart is a local of the call: the zero Point until it
\* is assigned.
GenerateCall(start, bias) ==
    /\ pc = "ready"
    /\ Cardinality(Corridors(m)) <= MaxCorridors
    /\ IF start # <<>>
       THEN IF validateStart(m, start) # ""
            THEN /\ pc' = "failed"
                 /\ ret' = [NoRet EXCEPT !.err = validateStart(m, start)]
                 /\ generationStart' = Point(0, 0)
                 /\ UNCHANGED <<m, stack>>
                 /\ \E d \in DoorInputs(m) :
                       call' = [GenerateArgs(start, bias) EXCEPT
                                    !.door = d.door, !.doorSide = d.doorSide]
            ELSE LET b == runDFSBegin(m, start[1])
                 IN  /\ pc' = "dfs"
                     /\ call' = GenerateArgs(start, bias)
                     /\ generationStart' = start[1]
                     /\ m' = b.maze
                     /\ stack' = b.stack
                     /\ ret' = NoRet
       ELSE \* r.Intn(n) panics when n <= 0
            /\ pc' = IF GoDiv(m.width - 1, 2) <= 0 \/ GoDiv(m.height - 1, 2) <= 0
                     THEN "panic" ELSE "pickStart"
            /\ call' = GenerateArgs(start, bias)
            /\ ret' = NoRet
            /\ generationStart' = Point(0, 0)
            /\ UNCHANGED <<m, stack>>

\* one round of the seed-cell loop; ix, iy are the two Intn draws
PickStart(ix, iy) ==
    /\ pc = "pickStart"
    /\ LET p == Point(ix * 2 + 1, iy * 2 + 1)
       IN  IF ~IsInsideDen(m, p)
           THEN LET b == runDFSBegin(m, p)
                IN  /\ pc' = "dfs"
                    /\ generationStart' = p
                    /\ m' = b.maze
                    /\ stack' = b.stack
           ELSE UNCHANGED <<pc, generationStart, m, stack>>
    /\ UNCHANGED <<call, ret>>

\* one iteration of the loop of runDFS; f is the Float64 draw, i the Intn draw
RunDFSStep(f, i) ==
    /\ pc = "dfs"
    /\ Len(stack) > 0
    /\ LET r == runDFSIteration(m, stack, call.bias, f, i)
       IN  /\ m' = r.maze
           /\ stack' = r.stack
    /\ UNCHANGED <<pc, call, ret, generationStart>>

\* the rest of Generate once the carving loop has ended: connectDen, then
\* placeStartAndEnd; i is the Intn draw of connectRandomDenDoor
FinishGenerate(door, doorSide, i) ==
    /\ pc = "dfs"
    /\ Len(stack) = 0
    /\ call' = [call EXCEPT !.door = door, !.doorSide = doorSide]
    /\ LET c == connectDen(m, i, door, doorSide)
       IN  IF c.err # ""
           THEN /\ m' = c.maze
                /\ pc' = "failed"
                /\ ret' = [NoRet EXCEPT !.err = c.err]
           ELSE /\ m' = placeStartAndEnd(c.maze, generationStart, call.start # <<>>)
                /\ pc' = "generated"
                /\ ret' = NoRet
    /\ UNCHANGED <<stack, generationStart>>

SolveCall ==
    /\ pc \in {"generated", "hand"}
    /\ LET r == Solve(m)
       IN  ret' = [err |-> "", path |-> r.path, found |-> r.found]
    /\ pc' = "solved"
    /\ UNCHANGED <<m, call, stack, generationStart>>

\* the start arguments the model draws: nil and every point of the grid and
\* of a frame one cell around it
StartInputs(mz) ==
    {<<>>} \cup {<<Point(x, y)>> : x \in (-1)..mz.width, y \in (-1)..mz.height}

\* the values r.Intn(n) can return (a single dummy draw when it is not called)
IntnDraws(n) == IF n > 0 THEN 0..(n - 1) ELSE {0}

\* the neighbours the current iteration of runDFS chooses from
DFSNeighbors ==
    IF pc = "dfs" /\ Len(stack) > 0
    THEN findValidNeighbors(m, stack[Len(stack)]) ELSE <<>>

\* connectDen reaches connectRandomDenDoor
RandomDoor(mz, d) ==
    pc = "dfs" /\ Len(stack) = 0 /\ mz.denWidth > 0 /\ mz.denHeight > 0
    /\ d.doorSide = "" /\ d.door = <<>>

Next ==
    \/ /\ pc = "start"
       /\ \E w \in (-1)..MaxWidth, h \in (-1)..MaxHeight,
             dw \in (-1)..MaxDen, dh \in (-1)..MaxDen : NewCall(w, h, dw, dh)
       /\ UNCHANGED seeded
    \/ /\ pc = "ready"
       /\ \E s \in StartInputs(m), b \in 0..BiasUnit : GenerateCall(s, b)
       /\ UNCHANGED seeded
    \/ /\ pc = "pickStart"
       /\ \E ix \in IntnDraws(GoDiv(m.width - 1, 2)),
             iy \in IntnDraws(GoDiv(m.height - 1, 2)) : PickStart(ix, iy)
       /\ UNCHANGED seeded
    \/ /\ pc = "dfs" /\ Len(stack) > 0
       /\ \E f \in 0..(BiasUnit - 1), i \in IntnDraws(Len(DFSNeighbors)) :
             RunDFSStep(f, i)
       /\ UNCHANGED seeded
    \/ /\ pc = "dfs" /\ Len(stack) = 0
       /\ \E d \in DoorInputs(m) :
             \E i \in IntnDraws(IF RandomDoor(m, d) THEN Len(potentialDoors(m)) ELSE 0) :
                 FinishGenerate(d.door, d.doorSide, i)
       /\ UNCHANGED seeded
    \/ SolveCall /\ UNCHANGED seeded

Spec == Init /\ [][Next]_vars

\* the steps a running Generate or Solve takes by itself
PickStartStep ==
    /\ pc = "pickStart"
    /\ \E ix \in IntnDraws(GoDiv(m.width - 1, 2)),
          iy \in IntnDraws(GoDiv(m.height - 1, 2)) : PickStart(ix, iy)
    /\ UNCHANGED seeded

DFSStep ==
    /\ pc = "dfs" /\ Len(stack) > 0
    /\ \E f \in 0..(BiasUnit - 1), i \in IntnDraws(Len(DFSNeighbors)) :
          RunDFSStep(f, i)
    /\ UNCHANGED seeded

FinishStep ==
    /\ pc = "dfs" /\ Len(stack) = 0
    /\ \E d \in DoorInputs(m) :
          \E i \in IntnDraws(IF RandomDoor(m, d) THEN Len(potentialDoors(m)) ELSE 0) :
              FinishGenerate(d.door, d.doorSide, i)
    /\ UNCHANGED seeded

\* generation on the smaller mazes, with a running loop always taking its
\* next iteration (what follows the carving loop is one step, FinishStep); a round of the
\* seed-cell loop that draws a den cell leaves the state as it is, so
\* fairness of the loop means that a cell outside the den is drawn in the end
NextFair ==
    \/ /\ pc = "start"
       /\ \E w \in (-1)..MaxFairWidth, h \in (-1)..MaxFairHeight,
             dw \in (-1)..MaxFairDen, dh \in (-1)..MaxFairDen : NewCall(w, h, dw, dh)
       /\ UNCHANGED seeded
    \/ /\ pc = "ready"
       /\ \E s \in StartInputs(m), b \in 0..BiasUnit : GenerateCall(s, b)
       /\ UNCHANGED seeded
    \/ PickStartStep
    \/ DFSStep
    \/ FinishStep
    \/ SolveCall /\ UNCHANGED seeded

SpecFair ==
    /\ Init /\ [][NextFair]_vars
    /\ WF_vars(PickStartStep)
    /\ WF_vars(DFSStep)

(***************************************************************************)
(* Generate called again on a maze that was already generated.  Generate   *)
(* does not reset the grid: the second call works on the carved grid, the  *)
(* door and the markers the first call left.  first keeps the maze as the  *)
(* first call left it.                                                     *)
(***************************************************************************)
\* the start arguments drawn for re-generation: nil, the passage cells
\* outside the den, and one point Generate refuses
RegenStarts(mz) == {<<>>, <<Point(0, 0)>>} \cup {<<p>> : p \in FreeCells(mz)}

\* Generate up to the choice of the seed cell, on the generated maze m
GenerateAgain(start, bias) ==
    /\ pc = "generated"
    /\ first = <<>>
    /\ first' = <<[m |-> m, pc |-> pc, ret |-> ret, call |-> call, seed |-> rng.seed]>>
    /\ IF start # <<>>
       THEN IF validateStart(m, start) # ""
            THEN /\ pc' = "failed"
                 /\ ret' = [NoRet EXCEPT !.err = validateStart(m, start)]
                 /\ generationStart' = Point(0, 0)
                 /\ UNCHANGED <<m, stack>>
                 /\ \E d \in DoorInputs(m) :
                       call' = [GenerateArgs(start, bias) EXCEPT
                                    !.door = d.door, !.doorSide = d.doorSide]
            ELSE LET b == runDFSBegin(m, start[1])
                 IN  /\ pc' = "dfs"
                     /\ call' = GenerateArgs(start, bias)
                     /\ generationStart' = start[1]
                     /\ m' = b.maze
                     /\ stack' = b.stack
                     /\ ret' = NoRet
       ELSE /\ pc' = IF GoDiv(m.width - 1, 2) <= 0 \/ GoDiv(m.height - 1, 2) <= 0
                     THEN "panic" ELSE "pickStart"
            /\ call' = GenerateArgs(start, bias)
            /\ ret' = NoRet
            /\ generationStart' = Point(0, 0)
            /\ UNCHANGED <<m, stack>>
    /\ UNCHANGED <<rng, tape>>

NextRegen ==
    \/ /\ pc = "start"
       /\ \E w \in 4..MaxRegenDim, h \in 4..MaxRegenDim,
             dw \in 0..MaxRegenDen, dh \in 0..MaxRegenDen : NewCall(w, h, dw, dh)
       /\ UNCHANGED seeded
    \/ /\ pc = "ready"
       /\ \E s \in RegenStarts(m), b \in 0..BiasUnit : GenerateCall(s, b)
       /\ UNCHANGED seeded
    \/ /\ pc = "generated"
       /\ \E s \in RegenStarts(m), b \in 0..BiasUnit : GenerateAgain(s, b)
    \/ PickStartStep
    \/ DFSStep
    \/ FinishStep

SpecRegen == Init /\ [][NextRegen]_vars

(***************************************************************************)
(* New alone, over a wider range of requests.                              *)
(***************************************************************************)
NextNew ==
    /\ pc = "start"
    /\ \E w \in (-1)..MaxNewDim, h \in (-1)..MaxNewDim,
          dw \in (-1)..MaxNewDim, dh \in (-1)..MaxNewDim : NewCall(w, h, dw, dh)
    /\ UNCHANGED seeded

SpecNew == Init /\ [][NextNew]_vars

(***************************************************************************)
(* Seeded runs: Generate with a seed, then New again for a second maze of  *)
(* the same dimensions and Generate on it with the same start and door     *)
(* arguments, any bias and the same seed or, on mazes of at most           *)
(* MaxTwinCorridors corridor positions, another seed.  What a seed         *)
(* determines is what a generator returns for the calls made on it: the    *)
(* values are revealed as the calls are made.                              *)
(***************************************************************************)
\* the call r.Intn(n), and the call r.Float64() with its value in units of
\* 1/BiasUnit
IntnOf(n) == [fn |-> "Intn", n |-> n]

Float64Of == [fn |-> "Float64", n |-> BiasUnit]

\* r makes the calls cs next, and they are the calls recorded for its seed as
\* far as the record goes
Recorded(r, cs) ==
    /\ r.same
    /\ \A j \in 1..Len(cs) :
          r.pos + j <= Len(tape[r.seed]) => tape[r.seed][r.pos + j].call = cs[j]

\* the values the last of the calls cs can return when r makes them next.  A
\* generator returns what another generator of its seed returned when both
\* have made the same calls; once the calls differ the values are not
\* related (the same position of the stream read by another call gives
\* another value, and a call may read more than one position)
Drawn(r, cs) ==
    IF Recorded(r, cs) /\ r.pos + Len(cs) <= Len(tape[r.seed])
    THEN {tape[r.seed][r.pos + Len(cs)].value}
    ELSE 0..(cs[Len(cs)].n - 1)

\* rand.Intn(n), the generator of the package, which no seed of Generate
\* determines
IntnGlobal(r, before, n) == 0..(n - 1)

\* r.Intn(n), made by r after the calls before
Intn(r, before, n) == Drawn(r, Append(before, IntnOf(n)))

\* r.Float64(), made by r after the calls before
Float64(r, before) == Drawn(r, Append(before, Float64Of))

\* r has made the calls cs, which returned the values vs
Consume(r, cs, vs) ==
    /\ rng' = [r EXCEPT !.pos = @ + Len(cs), !.same = Recorded(r, cs)]
    /\ tape' = [tape EXCEPT ![r.seed] =
                    IF Recorded(r, cs) /\ r.pos + Len(cs) > Len(@)
                    THEN SubSeq(@, 1, r.pos)
                         \o [j \in 1..Len(cs) |-> [call |-> cs[j], value |-> vs[j]]]
                    ELSE @]

TwinNew(w, h, dw, dh) ==
    /\ first = <<>>
    /\ NewCall(w, h, dw, dh)
    /\ UNCHANGED seeded

\* the New calls of the seeded runs
TwinRequests ==
    {<<w, h, dw, dh>> : w \in 1..MaxTwinDim, h \in 1..MaxTwinDim,
                        dw \in 0..MaxTwinDen, dh \in 0..MaxTwinDen}
    \cup {<<w, h, 0, 0>> : w \in 1..MaxTwinWidth, h \in 1..MaxTwinHeight}

\* Generate with a seed; on the second maze with the start and the door
\* arguments of the first call, and with any bias and seed
TwinGenerate(seed, start, bias) ==
    /\ pc = "ready"
    /\ first # <<>> => start = first[1].call.start
    /\ (first # <<>> /\ seed # first[1].seed) =>
          Cardinality(Corridors(m)) <= MaxTwinCorridors
    /\ GenerateCall(start, bias)
    /\ (first # <<>> /\ pc' = "failed") =>
          /\ call'.door = first[1].call.door
          /\ call'.doorSide = first[1].call.doorSide
    /\ rng' = NewSource(seed)
    /\ UNCHANGED <<tape, first>>

TwinPickStart ==
    /\ pc = "pickStart"
    /\ LET nx == GoDiv(m.width - 1, 2)
           ny == GoDiv(m.height - 1, 2)
       IN  \E ix \in Intn(rng, <<>>, nx), iy \in Intn(rng, <<IntnOf(nx)>>, ny) :
            /\ IsInsideDen(m, Point(ix * 2 + 1, iy * 2 + 1)) => rng.pos < MaxRetryDraws
            /\ PickStart(ix, iy)
            /\ Consume(rng, <<IntnOf(nx), IntnOf(ny)>>, <<ix, iy>>)
    /\ UNCHANGED first

\* chooseBiasedNeighbor draws Float64 when there is a straight option, and
\* Intn when there is none or the Float64 draw is not below the bias
TwinRunDFSStep ==
    /\ pc = "dfs" /\ Len(stack) > 0
    /\ LET nb == DFSNeighbors
       IN  IF Len(nb) = 0
           THEN RunDFSStep(0, 0) /\ UNCHANGED <<rng, tape>>
           ELSE IF straightOption(nb, stack) # 0
           THEN \E f \in Float64(rng, <<>>) :
                   IF f < call.bias
                   THEN RunDFSStep(f, 0) /\ Consume(rng, <<Float64Of>>, <<f>>)
                   ELSE \E i \in Intn(rng, <<Float64Of>>, Len(nb)) :
                           /\ RunDFSStep(f, i)
                           /\ Consume(rng, <<Float64Of, IntnOf(Len(nb))>>, <<f, i>>)
           ELSE \E i \in Intn(rng, <<>>, Len(nb)) :
                   RunDFSStep(0, i) /\ Consume(rng, <<IntnOf(Len(nb))>>, <<i>>)
    /\ UNCHANGED first

TwinFinish ==
    /\ pc = "dfs" /\ Len(stack) = 0
    /\ \E d \in DoorInputs(m) :
          /\ first # <<>> =>
                d.door = first[1].call.door /\ d.doorSide = first[1].call.doorSide
          /\ IF RandomDoor(m, d) /\ Len(potentialDoors(m)) > 0
             THEN \E i \in Intn(rng, <<>>, Len(potentialDoors(m))) :
                     /\ FinishGenerate(d.door, d.doorSide, i)
                     /\ Consume(rng, <<IntnOf(Len(potentialDoors(m)))>>, <<i>>)
             ELSE FinishGenerate(d.door, d.doorSide, 0) /\ UNCHANGED <<rng, tape>>
    /\ UNCHANGED first

\* keep the outcome of the first Generate and construct the second maze: a
\* New call that gives a maze of the same dimensions
TwinAgain(w, h, dw, dh) ==
    /\ first = <<>>
    /\ pc \in {"generated", "failed"} /\ call.op = "Generate"
    /\ first' = <<[m |-> m, pc |-> pc, ret |-> ret, call |-> call, seed |-> rng.seed]>>
    /\ LET r == New(w, h, dw, dh)
       IN  /\ r.err = ""
           /\ r.maze.width = m.width /\ r.maze.height = m.height
           /\ r.maze.denWidth = m.denWidth /\ r.maze.denHeight = m.denHeight
           /\ m' = r.maze
    /\ pc' = "ready"
    /\ call' = [NoCall EXCEPT !.op = "New", !.width = w, !.height = h,
                              !.denWidth = dw, !.denHeight = dh]
    /\ ret' = NoRet
    /\ UNCHANGED <<stack, generationStart, rng, tape>>

NextTwin ==
    \/ /\ pc = "start"
       /\ \E q \in TwinRequests : TwinNew(q[1], q[2], q[3], q[4])
    \/ /\ pc = "ready"
       /\ \E seed \in Seeds, s \in RegenStarts(m), b \in 0..BiasUnit :
             TwinGenerate(seed, s, b)
    \/ TwinPickStart
    \/ TwinRunDFSStep
    \/ TwinFinish
    \/ /\ pc \in {"generated", "failed"}
       /\ \E q \in TwinRequests : TwinAgain(q[1], q[2], q[3], q[4])

SpecTwin == Init /\ [][NextTwin]_vars

(***************************************************************************)
(* Solve on hand-built mazes (solve_test.go builds Maze values directly):  *)
(* any grid of Wall and Path cells, any start and end inside the grid,     *)
(* with or without the Start and End markers written on them, and the      *)
(* three mazes of TestSolve.                                               *)
(***************************************************************************)
\* a Maze literal; with marked the grid holds End at e and Start at s (Start
\* where the two coincide, as in the literal of 'Start equals End')
HandMaze(w, h, g, s, e, marked) ==
    LET m0 == [NoMaze EXCEPT !.width = w, !.height = h, !.grid = g,
                             !.start = s, !.end = e]
    IN  IF marked THEN SetCell(SetCell(m0, e, End), s, Start) ELSE m0

\* a grid literal, given as its rows from the top
GridOf(rows) ==
    [y \in 0..(Len(rows) - 1) |-> [x \in 0..(Len(rows[y + 1]) - 1) |-> rows[y + 1][x + 1]]]

\* the mazes of TestSolve: 'Simple solvable maze', 'Unsolvable maze' and
\* 'Start equals End'
TestSolveMazes ==
    {HandMaze(5, 3, GridOf(<<<<Wall, Wall, Wall, Wall, Wall>>,
                             <<Wall, Start, Path, End, Wall>>,
                             <<Wall, Wall, Wall, Wall, Wall>>>>),
              Point(1, 1), Point(3, 1), FALSE),
     HandMaze(5, 3, GridOf(<<<<Wall, Wall, Wall, Wall, Wall>>,
                             <<Wall, Start, Wall, End, Wall>>,
                             <<Wall, Wall, Wall, Wall, Wall>>>>),
              Point(1, 1), Point(3, 1), FALSE),
     HandMaze(3, 3, GridOf(<<<<Wall, Wall, Wall>>,
                             <<Wall, Start, Wall>>,
                             <<Wall, Wall, Wall>>>>),
              Point(1, 1), Point(1, 1), FALSE)}

HandShapes ==
    {d \in (1..MaxHand) \X (1..MaxHand) : d[1] * d[2] <= MaxHandCells}

InitHand ==
    /\ pc = "hand"
    /\ \/ \E d \in HandShapes :
             \E g \in [0..(d[2] - 1) -> [0..(d[1] - 1) -> {Wall, Path}]],
                sx \in 0..(d[1] - 1), sy \in 0..(d[2] - 1),
                ex \in 0..(d[1] - 1), ey \in 0..(d[2] - 1),
                marked \in BOOLEAN :
                   m = HandMaze(d[1], d[2], g, Point(sx, sy), Point(ex, ey), marked)
       \/ m \in TestSolveMazes
    /\ call = [NoCall EXCEPT !.op = "hand"]
    /\ ret = NoRet
    /\ stack = <<>>
    /\ generationStart = Point(0, 0)
    /\ SeededInit

NextHand == SolveCall /\ UNCHANGED seeded

SpecSolve == InitHand /\ [][NextHand]_vars

(***************************************************************************)
(* Vocabulary of the properties.                                           *)
(***************************************************************************)
GridPoints(mz) == {Point(x, y) : x \in 0..(mz.width - 1), y \in 0..(mz.height - 1)}

HasDen(mz) == mz.denWidth > 0 /\ mz.denHeight > 0

\* the non-Wall cells
Walkable(mz) == {p \in GridPoints(mz) : CellAt(mz, p) # Wall}

\* the passage cells: odd x, odd y, strictly inside the border
PassageCells(mz) ==
    {p \in GridPoints(mz) : Interior(mz, p) /\ p.X % 2 = 1 /\ p.Y % 2 = 1}

Adjacent(p, q) ==
    \/ p.X = q.X /\ (p.Y = q.Y + 1 \/ q.Y = p.Y + 1)
    \/ p.Y = q.Y /\ (p.X = q.X + 1 \/ q.X = p.X + 1)

\* the 4-adjacent pairs of V, each counted once
Links(V) ==
    {e \in V \X V : \/ e[2].X = e[1].X + 1 /\ e[2].Y = e[1].Y
                    \/ e[2].X = e[1].X /\ e[2].Y = e[1].Y + 1}

RECURSIVE Grow(_, _)
\* the cells of V joined to S by 4-adjacent steps inside V
Grow(V, S) ==
    LET T == S \cup {q \in V : \E p \in S : Adjacent(p, q)}
    IN  IF T = S THEN S ELSE Grow(V, T)

\* exactly one simple path joins any two cells of V
IsTree(V) ==
    /\ V # {}
    /\ Grow(V, {CHOOSE p \in V : TRUE}) = V
    /\ Cardinality(Links(V)) = Cardinality(V) - 1

\* C1: after a successful Generate on a fresh maze without a den, every
\* passage cell is walkable and reachable from Start(), and the walkable
\* cells form a tree under 4-adjacency.
C1_NoDenSpanningTree ==
    (pc = "generated" /\ ~HasDen(m)) =>
        /\ PassageCells(m) \subseteq Grow(Walkable(m), {m.start})
        /\ IsTree(Walkable(m))

C1_Witness ==
    /\ pc = "generated" /\ ~HasDen(m)
    /\ Cardinality(PassageCells(m)) >= 6
    /\ call.start = <<>> /\ call.bias = 1

\* C2: after a successful Generate on a fresh maze with a den, the walkable
\* cells outside the den form a tree under 4-adjacency, whichever door
\* strategy was used.
C2_OutsideDenIsTree ==
    (pc = "generated" /\ HasDen(m)) =>
        IsTree({p \in Walkable(m) : ~IsInsideDen(m, p)})

\* the walkable cells next to the den
DenOpenings(mz) == {p \in Walkable(mz) : IsAdjacentToDen(mz, p)}

\* C3: after a successful Generate on a fresh maze with a den, at most one
\* cell 4-adjacent to the den is non-Wall; when a door was created it is the
\* only such cell and it is the point Door() returns.
C3_SingleDoor ==
    (pc = "generated" /\ HasDen(m)) =>
        /\ Cardinality(DenOpenings(m)) <= 1
        /\ (m.door # Point(0, 0) => DenOpenings(m) = {m.door})

C3_Witness ==
    /\ pc = "generated" /\ HasDen(m)
    /\ call.doorSide = "top"
    /\ m.door # Point(0, 0)
    /\ DenOpenings(m) = {m.door}

\* C4: a Solve that follows a Generate that returned no error finds a path.
C4_GeneratedIsSolvable == (pc = "solved") => ret.found

C4_Witness ==
    /\ pc = "solved" /\ ret.found
    /\ HasDen(m) /\ m.door # Point(0, 0)
    /\ Len(ret.path) >= 6

\* a dimension rounded up to the next odd value
RoundUpOdd(n) == IF n % 2 = 0 THEN n + 1 ELSE n

\* C8: for every New that succeeds, Width() and Height() are odd, equal the
\* request when it is odd and the request plus one when it is even, and the
\* maze holds at least one interior passage cell.
C8_OddAndViable ==
    (pc = "ready" /\ call.op = "New") =>
        /\ m.width % 2 = 1 /\ m.height % 2 = 1
        /\ m.width = RoundUpOdd(call.width)
        /\ m.height = RoundUpOdd(call.height)
        /\ PassageCells(m) # {}

\* the requests C9 says New refuses
Refused(width, height, denWidth, denHeight) ==
    \/ width <= 0 \/ height <= 0
    \/ denWidth < 0 \/ denHeight < 0
    \/ denWidth > 0 /\ RoundUpOdd(denWidth) >= RoundUpOdd(width) - 2
    \/ denHeight > 0 /\ RoundUpOdd(denHeight) >= RoundUpOdd(height) - 2

\* C9: New returns an error and no maze exactly when a size is not positive,
\* a den dimension is negative, or a positive den dimension rounded up to odd
\* is at least the rounded maze dimension minus 2; otherwise it returns a maze.
C9_NewErrors ==
    (call.op = "New") =>
        IF Refused(call.width, call.height, call.denWidth, call.denHeight)
        THEN pc = "failed" /\ ret.err # "" /\ m = NoMaze
        ELSE pc = "ready" /\ ret.err = "" /\ m.width > 0 /\ m.height > 0
             /\ DOMAIN m.grid = 0..(m.height - 1)

C9_Witness ==
    /\ call.op = "New" /\ pc = "failed"
    /\ call.width > 0 /\ call.height > 0 /\ call.denHeight > 0
    /\ call.denWidth > 0 /\ call.denWidth % 2 = 0
    /\ call.denWidth + 1 = RoundUpOdd(call.width) - 2

\* the start points C10 says Generate refuses
BadStart(mz, s) ==
    \/ s.X % 2 = 0 \/ s.Y % 2 = 0
    \/ s.X <= 0 \/ s.X >= mz.width - 1 \/ s.Y <= 0 \/ s.Y >= mz.height - 1
    \/ IsInsideDen(mz, s)

\* C10: Generate with a start point returns an error when the point has an
\* even coordinate, lies on or outside the border or lies inside the den; with
\* any other start point it never fails because of the start point (it fails
\* only on a maze with a den, with a door argument, and with a door error).
C10_StartValidation ==
    (call.op = "Generate" /\ call.start # <<>>) =>
        IF BadStart(m, call.start[1])
        THEN pc = "failed" /\ ret.err \in {ErrStart, ErrStartDen}
        ELSE /\ pc # "panic"
             /\ ret.err \notin {ErrStart, ErrStartDen}
             /\ pc = "failed" =>
                    /\ HasDen(m)
                    /\ call.doorSide # "" \/ call.door # <<>>
                    /\ ret.err \in {ErrSide, ErrEdge, ErrNoPath, ErrDoorWall, ErrDoorSeam}

C10_Witness ==
    /\ call.op = "Generate" /\ call.start # <<>> /\ pc = "failed"
    /\ call.start[1].X % 2 = 1 /\ call.start[1].Y % 2 = 1
    /\ IsInsideDen(m, call.start[1])
    /\ ret.err = ErrStartDen

RECURSIVE Distance(_, _, _, _, _)
\* the least number of 4-adjacent moves onto non-Wall cells that lead from
\* the layer S to target, -1 when there is none (Seen holds the layers so far)
Distance(mz, S, Seen, target, k) ==
    IF target \in S THEN k
    ELSE LET N == {q \in Walkable(mz) \ Seen : \E p \in S : Adjacent(p, q)}
         IN  IF N = {} THEN -1 ELSE Distance(mz, N, Seen \cup N, target, k + 1)

\* C5: when Solve finds a path it starts at the start point, ends at the end
\* point, moves by 4-adjacent steps onto non-Wall cells, and no shorter such
\* sequence exists; when start equals end it is the single start point.
C5_PathIsShortest ==
    (pc = "solved" /\ ret.found) =>
        /\ Len(ret.path) >= 1
        /\ ret.path[1] = m.start
        /\ ret.path[Len(ret.path)] = m.end
        /\ \A k \in 1..(Len(ret.path) - 1) : Adjacent(ret.path[k], ret.path[k + 1])
        /\ \A k \in 2..Len(ret.path) : ret.path[k] \in Walkable(m)
        /\ Len(ret.path) - 1 = Distance(m, {m.start}, {m.start}, m.end, 0)
        /\ (m.start = m.end => ret.path = <<m.start>>)

C5_Witness ==
    /\ pc = "solved" /\ ret.found /\ call.op = "hand"
    /\ Len(ret.path) = 7

\* C6: Solve returns found = true exactly when the end point can be reached
\* from the start point by 4-adjacent moves onto non-Wall cells, and a nil
\* path with found = false otherwise.
C6_FoundIffReachable ==
    (pc = "solved") =>
        /\ ret.found <=> (m.end \in Grow(Walkable(m) \cup {m.start}, {m.start}))
        /\ (~ret.found => ret.path = <<>>)

C6_Witness ==
    /\ pc = "solved" /\ ~ret.found /\ ret.path = <<>> /\ call.op = "hand"
    /\ CellAt(m, m.end) = End
    /\ Cardinality(Grow(Walkable(m), {m.start})) >= 4

\* the second Generate returned; it was given the seed and the arguments of
\* the first one, on a maze of the same dimensions
SameCall ==
    /\ first # <<>>
    /\ pc \in {"generated", "failed"} /\ call.op = "Generate"
    /\ rng.seed = first[1].seed
    /\ call = first[1].call
    /\ m.width = first[1].m.width /\ m.height = first[1].m.height
    /\ m.denWidth = first[1].m.denWidth /\ m.denHeight = first[1].m.denHeight

\* C7: two freshly constructed mazes of the same dimensions, given Generate
\* with the same seed, bias, start, door point and door side, end with the
\* same outcome, the same grid and the same Start(), End() and Door().
C7_SameSeedSameMaze ==
    SameCall =>
        /\ pc = first[1].pc /\ ret = first[1].ret
        /\ m.grid = first[1].m.grid
        /\ m.start = first[1].m.start
        /\ m.end = first[1].m.end
        /\ m.door = first[1].m.door

\* two equal calls with a nil start and a bias strictly between 0 and 1 on
\* the 7x5 maze: two draws for the seed cell and at least one for each of the
\* five carvings, and one more, so that Float64 was drawn and compared with
\* the bias
C7_Witness ==
    /\ SameCall /\ pc = "generated"
    /\ call.bias > 0 /\ call.bias < BiasUnit
    /\ call.start = <<>>
    /\ m.width = 7 /\ m.height = 5 /\ ~HasDen(m)
    /\ rng.pos >= 8
    /\ m.grid = first[1].m.grid

\* a cell that is neither inside the den nor 4-adjacent to it
Eligible(mz, p) == ~IsInsideDen(mz, p) /\ ~IsAdjacentToDen(mz, p)

RECURSIVE Farthest(_, _, _, _, _)
\* the greatest number of moves at which the layers that start with S (at k
\* moves) hold an eligible cell; best is the greatest found so far
Farthest(mz, S, Seen, k, best) ==
    LET b == IF \E p \in S : Eligible(mz, p) THEN k ELSE best
        N == {q \in Walkable(mz) \ Seen : \E p \in S : Adjacent(p, q)}
    IN  IF N = {} THEN b ELSE Farthest(mz, N, Seen \cup N, k + 1, b)

\* C11: after a successful Generate, Start() is the supplied start point when
\* one was given, and End() is a walkable cell, neither inside the den nor
\* 4-adjacent to it, whose distance from Start() is the greatest distance of
\* any such cell.
C11_EndIsFarthest ==
    (pc = "generated") =>
        /\ (call.start # <<>> => m.start = call.start[1])
        /\ m.end \in Walkable(m) /\ Eligible(m, m.end)
        /\ Distance(m, {m.start}, {m.start}, m.end, 0)
               = Farthest(m, {m.start}, {m.start}, 0, 0)

\* a supplied start point, and a den cell farther from it than End()
C11_Witness ==
    /\ pc = "generated" /\ call.start # <<>> /\ HasDen(m) /\ m.door # Point(0, 0)
    /\ m.end # m.start
    /\ \E p \in Walkable(m) :
          /\ IsInsideDen(m, p)
          /\ Distance(m, {m.start}, {m.start}, p, 0)
                 > Distance(m, {m.start}, {m.start}, m.end, 0)

\* C12: after a successful Generate on a fresh maze the grid holds the Start
\* marker at Start() and the End marker at End().
C12_MarkersPlaced ==
    (pc = "generated") =>
        /\ CellAt(m, m.start) = Start
        /\ CellAt(m, m.end) = End

\* C13: Generate never returns success with Start() equal to End().
C13_StartDiffersFromEnd == (pc = "generated") => m.start # m.end

\* C14: on a maze generated with a den and a door, the path Solve returns
\* holds no cell inside the den.
C14_PathAvoidsDen ==
    (pc = "solved" /\ HasDen(m) /\ m.door # Point(0, 0)) =>
        \A k \in 1..Len(ret.path) : ~IsInsideDen(m, ret.path[k])

\* a path that passes the cell in front of the door
C14_Witness ==
    /\ pc = "solved" /\ ret.found /\ HasDen(m) /\ m.door # Point(0, 0)
    /\ Len(ret.path) >= 5
    /\ \E k \in 2..(Len(ret.path) - 1) : Adjacent(ret.path[k], m.door)

\* the unit step that leaves the den through the named side
Outward(side) ==
    CASE side = "top" -> Point(0, -1)
      [] side = "bottom" -> Point(0, 1)
      [] side = "left" -> Point(-1, 0)
      [] side = "right" -> Point(1, 0)

\* the wall cell in front of the middle cell of the named den edge (the den
\* dimensions are odd)
EdgeMidpoint(mz, side) ==
    LET midX == mz.denStartX + (mz.denWidth - 1) \div 2
        midY == mz.denStartY + (mz.denHeight - 1) \div 2
    IN  CASE side = "top" -> Point(midX, mz.denStartY - 1)
          [] side = "bottom" -> Point(midX, mz.denStartY + mz.denHeight)
          [] side = "left" -> Point(mz.denStartX - 1, midY)
          [] side = "right" -> Point(mz.denStartX + mz.denWidth, midY)

\* the neighbour of the door on the den side and the one on the other side
DoorInner(mz, side) ==
    Point(mz.door.X - Outward(side).X, mz.door.Y - Outward(side).Y)

DoorOuter(mz, side) ==
    Point(mz.door.X + Outward(side).X, mz.door.Y + Outward(side).Y)

\* Generate succeeded with a door side on a maze with a den
SideDoorMade == pc = "generated" /\ HasDen(m) /\ call.doorSide \in Sides

\* C15 as stated: after a successful Generate with a door side on a maze with
\* a den, Door() is the midpoint wall cell of the named edge, it is Path, its
\* neighbour on the den side is a Path cell inside the den and its outward
\* neighbour is a Path cell outside the den.
C15_SideDoorGeometry ==
    SideDoorMade =>
        /\ m.door = EdgeMidpoint(m, call.doorSide)
        /\ CellAt(m, m.door) = Path
        /\ CellAt(m, DoorInner(m, call.doorSide)) = Path
        /\ IsInsideDen(m, DoorInner(m, call.doorSide))
        /\ CellAt(m, DoorOuter(m, call.doorSide)) = Path
        /\ ~IsInsideDen(m, DoorOuter(m, call.doorSide))

\* C15 as amended: the same, with the outward neighbour a non-Wall cell
\* outside the den (Path, or the Start or End marker written over it).
C15_SideDoorOpen ==
    SideDoorMade =>
        /\ m.door = EdgeMidpoint(m, call.doorSide)
        /\ CellAt(m, m.door) = Path
        /\ CellAt(m, DoorInner(m, call.doorSide)) = Path
        /\ IsInsideDen(m, DoorInner(m, call.doorSide))
        /\ CellAt(m, DoorOuter(m, call.doorSide)) \in {Path, Start, End}
        /\ ~IsInsideDen(m, DoorOuter(m, call.doorSide))

\* a side door whose outward neighbour holds the End marker
C15_Witness ==
    /\ SideDoorMade /\ call.doorSide = "left"
    /\ m.door = EdgeMidpoint(m, "left")
    /\ CellAt(m, DoorOuter(m, "left")) = End

\* on the outer border or outside the grid
OnOrOutsideBorder(mz, p) ==
    p.X <= 0 \/ p.X >= mz.width - 1 \/ p.Y <= 0 \/ p.Y >= mz.height - 1

\* the cell one step further out than the midpoint wall cell of the side
EdgeOutward(mz, side) ==
    Point(EdgeMidpoint(mz, side).X + Outward(side).X,
          EdgeMidpoint(mz, side).Y + Outward(side).Y)

\* Generate returned, after a call with a door side on a maze with a den
SideDoorAsked ==
    /\ call.op = "Generate" /\ pc \in {"generated", "failed"}
    /\ HasDen(m) /\ call.doorSide # ""

\* the side is not one of the four names, or the door cell or its outward
\* neighbour lies on or outside the outer border
SideRefused ==
    \/ call.doorSide \notin Sides
    \/ OnOrOutsideBorder(m, EdgeMidpoint(m, call.doorSide))
    \/ OnOrOutsideBorder(m, EdgeOutward(m, call.doorSide))

\* the call has a start point that Generate refuses
StartRefused == call.start # <<>> /\ BadStart(m, call.start[1])

\* C16 as stated: on a maze with a den, Generate with a door side fails
\* exactly when the side name is not top, bottom, left or right, or the door
\* cell or its outward neighbour lies on or outside the outer border;
\* otherwise the door is placed on the named side.
C16_SideFailsIff ==
    SideDoorAsked =>
        IF SideRefused
        THEN pc = "failed"
        ELSE pc = "generated" /\ m.door = EdgeMidpoint(m, call.doorSide)
             /\ CellAt(m, m.door) = Path

\* C16 as amended: on a maze with a den, Generate with a door side fails
\* exactly when its start point is refused (with the start error, before the
\* side is read), or the side name is not top, bottom, left or right, or the
\* door cell or its outward neighbour lies on or outside the outer border
\* (with the side or the edge error); otherwise the door is placed on the
\* named side.
C16_SideFailsIffStartAccepted ==
    SideDoorAsked =>
        IF StartRefused
        THEN pc = "failed" /\ ret.err \in {ErrStart, ErrStartDen}
             /\ m.door = Point(0, 0)
        ELSE IF SideRefused
        THEN pc = "failed" /\ ret.err \in {ErrSide, ErrEdge} /\ m.door = Point(0, 0)
        ELSE pc = "generated" /\ m.door = EdgeMidpoint(m, call.doorSide)
             /\ CellAt(m, m.door) = Path

\* a recognised side refused because the den touches the border wall
C16_Witness ==
    /\ SideDoorAsked /\ call.doorSide = "left" /\ pc = "failed"
    /\ ret.err = ErrEdge /\ m.denStartX = 1 /\ m.denStartY > 1

\* Generate succeeded with neither a door side nor a door point on a den maze
RandomDoorMade ==
    pc = "generated" /\ HasDen(m) /\ call.doorSide = "" /\ call.door = <<>>

\* the cells on both sides of p along (dx, dy): exactly one of them is inside
\* the den, that one is Path and the other one is of the kinds K
Joins(mz, p, dx, dy, K) ==
    LET p1 == Point(p.X - dx, p.Y - dy)
        p2 == Point(p.X + dx, p.Y + dy)
    IN  /\ p1 \in GridPoints(mz) /\ p2 \in GridPoints(mz)
        /\ IsInsideDen(mz, p1) # IsInsideDen(mz, p2)
        /\ \A q \in {p1, p2} :
              CellAt(mz, q) \in (IF IsInsideDen(mz, q) THEN {Path} ELSE K)

\* C17 as stated: Generate with no door side and no door point on a maze
\* with a den creates a door: Door() is not (0,0), the door cell is Path, and
\* its left/right or its up/down neighbours are both Path with exactly one
\* of them inside the den.
C17_RandomDoorPathPair ==
    RandomDoorMade =>
        /\ m.door # Point(0, 0)
        /\ CellAt(m, m.door) = Path
        /\ Joins(m, m.door, 1, 0, {Path}) \/ Joins(m, m.door, 0, 1, {Path})

\* C17 as amended: the same, the neighbour inside the den being Path and the
\* one outside the den being Path or holding the Start or End marker; and
\* such a Generate fails only on its start point.
C17_RandomDoorCreated ==
    /\ RandomDoorMade =>
          /\ m.door # Point(0, 0)
          /\ CellAt(m, m.door) = Path
          /\ \/ Joins(m, m.door, 1, 0, {Path, Start, End})
             \/ Joins(m, m.door, 0, 1, {Path, Start, End})
    /\ (/\ call.op = "Generate" /\ pc = "failed" /\ HasDen(m)
        /\ call.doorSide = "" /\ call.door = <<>>) =>
          ret.err \in {ErrStart, ErrStartDen}

\* a random door on a den three cells wide, next to a marker
C17_Witness ==
    /\ RandomDoorMade /\ m.door # Point(0, 0)
    /\ m.denWidth = 3
    /\ \E d \in {Point(1, 0), Point(0, 1), Point(-1, 0), Point(0, -1)} :
          CellAt(m, Point(m.door.X + d.X, m.door.Y + d.Y)) \in {Start, End}

\* the cells the carving loop may carve next from the passage cell p: two
\* steps away along an axis, strictly inside the border, and still Wall
CarveTargets(mz, p) ==
    {q \in GridPoints(mz) :
        /\ Interior(mz, q) /\ CellAt(mz, q) = Wall
        /\ \/ q.X = p.X /\ (q.Y = p.Y + 2 \/ p.Y = q.Y + 2)
           \/ q.Y = p.Y /\ (q.X = p.X + 2 \/ p.X = q.X + 2)}

\* the cell that continues the move from the cell below the top of the
\* stack to its top
StraightAhead(stk) ==
    Point(2 * stk[Len(stk)].X - stk[Len(stk) - 1].X,
          2 * stk[Len(stk)].Y - stk[Len(stk) - 1].Y)

\* a step of the carving loop that carves (pushes) a cell
Carves == pc = "dfs" /\ pc' = "dfs" /\ Len(stack') = Len(stack) + 1

\* with bias 1 a valid straight neighbour is the one carved
StraightWhenBiasOne ==
    (/\ Carves /\ call.bias = BiasUnit /\ Len(stack) >= 2
     /\ StraightAhead(stack) \in CarveTargets(m, stack[Len(stack)])) =>
        stack'[Len(stack')] = StraightAhead(stack)

\* with bias 0, and at the seed cell with any bias, every valid neighbour
\* can be the one carved
AnyWhenUnbiased ==
    (pc = "dfs" /\ Len(stack) > 0 /\ (call.bias = 0 \/ Len(stack) = 1)) =>
        \A q \in CarveTargets(m, stack[Len(stack)]) :
            ENABLED (Next /\ stack' = Append(stack, q))

\* C18: during carving with bias 1 the neighbour that continues the last
\* move is the one carved whenever it is a valid target; with bias 0 no
\* neighbour is forced, any valid one can be carved; at the seed cell no
\* neighbour counts as straight.
C18_BiasRule == [][StraightWhenBiasOne]_vars /\ []AnyWhenUnbiased

\* bias 1, the straight neighbour just carved although a turn was possible
C18_Witness ==
    /\ pc = "dfs" /\ call.bias = BiasUnit /\ Len(stack) >= 3
    /\ stack[Len(stack)] = StraightAhead(SubSeq(stack, 1, Len(stack) - 1))
    /\ CarveTargets(m, stack[Len(stack) - 1]) # {}

\* the grid-line intersections: both coordinates even
Intersections(mz) == {p \in GridPoints(mz) : p.X % 2 = 0 /\ p.Y % 2 = 0}

\* C19 as stated: in every state from New through Generate every cell with
\* even x and even y is Wall, except the cell carved as the door.
C19_IntersectionsAreWall ==
    \A p \in Intersections(m) : p # m.door => CellAt(m, p) = Wall

\* C19 as amended: the same for the cells outside the den (the den is
\* carved whole, its intersections included).
C19_IntersectionsOutsideDen ==
    \A p \in Intersections(m) :
        (p # m.door /\ ~IsInsideDen(m, p)) => CellAt(m, p) = Wall

\* a generated maze whose door is a grid-line intersection
C19_Witness ==
    /\ pc = "generated" /\ HasDen(m)
    /\ m.door \in Intersections(m) /\ CellAt(m, m.door) = Path
    /\ Cardinality(Walkable(m)) >= 9

\* the cells of the den rectangle, by coordinates
DenRectangle(mz) ==
    {p \in GridPoints(mz) :
        /\ p.X >= mz.denStartX /\ p.X <= mz.denStartX + mz.denWidth - 1
        /\ p.Y >= mz.denStartY /\ p.Y <= mz.denStartY + mz.denHeight - 1}

\* C20: every maze New returns with a den has the den origin at odd x and
\* odd y, the den rectangle strictly inside the outer border (denStart >= 1
\* and denStart + denSize <= size - 1 on both axes), every cell of the
\* rectangle Path and every other cell Wall.
C20_DenPlacement ==
    (pc = "ready" /\ call.op = "New" /\ HasDen(m)) =>
        /\ m.denStartX % 2 = 1 /\ m.denStartY % 2 = 1
        /\ m.denStartX >= 1 /\ m.denStartX + m.denWidth <= m.width - 1
        /\ m.denStartY >= 1 /\ m.denStartY + m.denHeight <= m.height - 1
        /\ Cardinality(DenRectangle(m)) = m.denWidth * m.denHeight
        /\ \A p \in GridPoints(m) :
              CellAt(m, p) = IF p \in DenRectangle(m) THEN Path ELSE Wall

\* a den whose centred origin is even and is moved to the odd cell before it
C20_Witness ==
    /\ pc = "ready" /\ call.op = "New" /\ HasDen(m)
    /\ (m.width - m.denWidth) \div 2 = 4 /\ m.denStartX = 3
    /\ m.denHeight = 3 /\ call.denHeight = 2

(***************************************************************************)
(* The queues of the three breadth-first searches, as the loops build them.*)
(***************************************************************************)
RECURSIVE farQueue(_, _, _, _, _)
\* the queue of findFarthestPoint when its loop ends
farQueue(mz, queue, head, distances, far) ==
    IF head > Len(queue) THEN queue
    ELSE LET r == farScan(mz, queue[head], 1, queue, distances, far)
         IN  farQueue(mz, r.queue, head + 1, r.distances, r.far)

RECURSIVE solveQueue(_, _, _, _, _)
\* the queue of Solve when its loop ends
solveQueue(mz, queue, head, visited, parent) ==
    IF head > Len(queue) THEN queue
    ELSE IF queue[head] = mz.end THEN queue
    ELSE LET r == solveScan(mz, queue[head], 1, queue, visited, parent)
         IN  solveQueue(mz, r.queue, head + 1, r.visited, r.parent)

RECURSIVE carveQueue(_, _, _, _, _)
\* the queue of carvePathToNearest when its loop ends
carveQueue(mz, queue, head, visited, parent) ==
    IF head > Len(queue) THEN queue
    ELSE LET r == carveScan(mz, queue[head], 1, queue, visited, parent)
         IN  IF r.found THEN r.queue
             ELSE carveQueue(mz, r.queue, head + 1, r.visited, r.parent)

\* no element occurs twice in the sequence q
NoRepeat(q) == \A i, j \in 1..Len(q) : q[i] = q[j] => i = j

\* Generate never stops in a panic, and when it draws the seed cell there is
\* a passage cell outside the den to draw
SeedCellExists ==
    /\ pc # "panic"
    /\ pc = "pickStart" => FreeCells(m) # {}

\* the stack of the carving loop holds distinct carved cells, and Generate
\* returns with the stack empty
StackIsSimplePath ==
    /\ pc = "dfs" => NoRepeat(stack) /\ \A k \in 1..Len(stack) : CellAt(m, stack[k]) = Path
    /\ (pc \in {"generated", "solved"} \/ (pc = "failed" /\ call.op = "Generate")) =>
          stack = <<>>

\* the searches that run on the maze of the current state enqueue no cell
\* twice: findFarthestPoint and Solve on a generated maze, and
\* carvePathToNearest from the outward cell of each side door when the
\* carving loop has ended
QueuesHaveNoRepeat ==
    /\ pc = "generated" =>
          /\ NoRepeat(farQueue(m, <<m.start>>, 1, (m.start :> 0),
                                [farthestPoint |-> m.start, maxDistance |-> 0]))
          /\ NoRepeat(solveQueue(m, <<m.start>>, 1, {m.start}, <<>>))
    /\ (pc = "dfs" /\ stack = <<>> /\ HasDen(m)) =>
          \A side \in Sides :
              ~OnOrOutsideBorder(m, EdgeOutward(m, side)) =>
                  NoRepeat(carveQueue(m, <<EdgeOutward(m, side)>>, 1,
                                      {EdgeOutward(m, side)}, <<>>))

\* a cell is pushed only while it is still Wall, it is Path afterwards, and
\* no carved cell turns back into Wall while the loop runs
PushesFreshCell ==
    /\ Carves =>
          /\ CellAt(m, stack'[Len(stack')]) = Wall
          /\ CellAt(m', stack'[Len(stack')]) = Path
    /\ (pc = "dfs" /\ pc' = "dfs") =>
          \A p \in GridPoints(m) : CellAt(m, p) = Path => CellAt(m', p) = Path

\* the seed-cell loop ends with a seed cell, and the carving loop ends with
\* an empty stack
LoopsEnd ==
    /\ (pc = "pickStart") ~> (pc = "dfs")
    /\ (pc = "dfs") ~> (pc = "dfs" /\ stack = <<>>)

\* C21: every Generate and Solve call on a maze New accepts terminates: the
\* seed-cell loop has a cell to draw and ends under fair random choice, the
\* carving loop pushes each passage cell at most once and ends with an empty
\* stack, and each breadth-first search enqueues each cell at most once.
C21_CallsTerminate ==
    /\ []SeedCellExists
    /\ []StackIsSimplePath
    /\ []QueuesHaveNoRepeat
    /\ [][PushesFreshCell]_vars
    /\ LoopsEnd

\* the cells of the grid that hold the marker c
Marked(mz, c) == {p \in GridPoints(mz) : CellAt(mz, p) = c}

\* Generate was called again on a generated maze and returned success
Regenerated == first # <<>> /\ pc = "generated"

\* C22: after Generate is called again on a maze that was already generated,
\* at most one cell 4-adjacent to the den is non-Wall, and the grid holds
\* exactly one Start cell and exactly one End cell, at Start() and End().
C22_RegenerationKeepsStructure ==
    Regenerated =>
        /\ Cardinality(DenOpenings(m)) <= 1
        /\ Marked(m, Start) = {m.start}
        /\ Marked(m, End) = {m.end}

====
